---- MODULE Spec2Model ----
(***************************************************************************)
(* State-machine model of the conversation workflow of the mental-care     *)
(* chat API: the LangGraph workflow of app/agent/agent_core.py driven by   *)
(* the websocket handler of app/app.py, and the booking operation of       *)
(* app/services/doctor_service.py.                                         *)
(*                                                                         *)
(* One websocket session is modelled.  The graph executor runs the         *)
(* workflow in supersteps: all nodes scheduled for a superstep read the    *)
(* same state, their writes are merged when the last of them has           *)
(* finished, and the nodes they name (Command.goto, static edges and       *)
(* conditional edges together) form the next superstep.  A node that       *)
(* calls interrupt() without a resume value suspends the walk; the         *)
(* writes of the nodes that had already finished in that superstep are     *)
(* kept with the checkpoint and the others run again at resume.            *)
(***************************************************************************)
EXTENDS Integers, Sequences, FiniteSets, TLC

\* ------------------------------------------------------------------------
\* Bounds of the exploration
\* ------------------------------------------------------------------------
MaxTurns == 2
MaxResumes == 4
MaxRuns == 2
MaxMsgs == 3

\* ------------------------------------------------------------------------
\* Values
\* ------------------------------------------------------------------------
\* Python None, or a key that the state does not hold yet
None == "None"

\* the support line the prompt of respond names (agent_core.py:293)
CrisisContact == "0800-123-HELP"

Intents == {"inquiry", "booking", "urgent_help", "conversational"}
Urgencies == {"stable", "critical"}

\* what structured_llm.ainvoke can hand back to classify_intent: a
\* classification, one with an intent or an urgency outside the Literal
\* (the TypedDict is not validated), or an exception
ClassifyOutcomes ==
    [intent : Intents \cup {"other"}, urgency : Urgencies]
        \cup {[intent |-> "conversational", urgency |-> "other"]}
        \cup {[intent |-> "raise", urgency |-> "raise"]}

NoClassification == [intent |-> None, urgency |-> None]

\* the text of the client's n-th query: every query has its own text
Queries(n) == {IF n = 1 THEN "q1" ELSE IF n = 2 THEN "q2" ELSE "q3"}

\* values the client sends in a resume message ("" is a legal JSON string)
ResumeValues == {"", "Jane"}

\* texts the model can generate in respond, and whether they hold the
\* support line
GenTexts == {"I am here for you.", "Please call 0800-123-HELP now."}

ContainsCrisisContact(text) == text \in {"Please call 0800-123-HELP now."}

\* rag_tool results
Chunks == <<"chunk1", "chunk2">>
SearchFailed == <<"RAG search failed">>
NoResults == << >>

NoDate == [month |-> 0, day |-> 0, year |-> 0]

\* (month, day) of datetime.now() at the calls of book_appointment_algo in
\* a conversation: a date for which it returns a date and one for which it
\* returns an exception
Dates == {[month |-> 11, day |-> 27], [month |-> 12, day |-> 28]}

\* Python truthiness of an optional string: `not state.get(key)`
Falsy(v) == v = None \/ v = ""
Truthy(v) == ~Falsy(v)

\* ------------------------------------------------------------------------
\* State
\* ------------------------------------------------------------------------
VARIABLES
    st,        \* channel values of the thread's latest checkpoint (MentalHealthAgentState)
    tasks,     \* nodes of the current superstep that have not finished
    pw,        \* writes of the nodes of the current superstep that have finished
    intr,      \* field of the pending interrupt, or None
    resume,    \* resume value handed to the graph and not yet consumed
    pc,        \* websocket handler: "recv" (receive_text), "stream" (astream loop), "closed"
    started,   \* is_conversation_started
    out,       \* events sent on the websocket, oldest first
    turns,     \* number of queries received on the websocket
    resumed,   \* the resume values handed to the interrupted thread, oldest first
    walk,      \* nodes executed since the last query was handed to the graph
    streamed,  \* astream has yielded an event for the last message received
    \* DoctorService.book_appointment (doctor_service.py:64-126)
    sagaPc,    \* position in the operation: "idle", "start", "create", "save", "cancel", "done"
    patient_email, \* its argument patient_email
    doctor,    \* its local doctor
    event_id,  \* its local event_id
    appointment_id, \* its local appointment_id
    calls,     \* the calls made to the calendar and the store, with their results
    result,    \* the dict it returns
    run,       \* number of calls of book_appointment so far
    calendar,  \* ids of the events in the doctor's calendar
    appointments, \* the documents of the collection "appointments"
    \* two websocket connections and the checkpoint store they share
    conn,      \* per connection: the handler's position, session_id, flag and events sent
    store,     \* per thread_id: the thread's latest checkpoint
    uuids,     \* number of uuid4() calls so far
    \* a call of book_appointment_algo (agent_core.py:71-98)
    date,      \* (month, day) of the datetime.now() of the call
    booking,   \* the tuple (status, appointment_date) the call has returned
    \* the dashboard routes and the collections they work on
    doctorDocs, \* per doctor id: the document of the collection "doctors"
    appointmentDocs, \* per appointment id: the document of the collection "appointments"
    http       \* the last request served and its response

chatVars == <<st, tasks, pw, intr, resume, pc, started, out, turns, resumed, walk, streamed>>
sagaVars == <<sagaPc, patient_email, doctor, event_id, appointment_id, calls, result,
              run, calendar, appointments>>
sessVars == <<conn, store, uuids>>
algoVars == <<date, booking>>
dashVars == <<doctorDocs, appointmentDocs, http>>
vars == <<st, tasks, pw, intr, resume, pc, started, out, turns, resumed, walk, streamed,
          sagaPc, patient_email, doctor, event_id, appointment_id, calls, result,
          run, calendar, appointments, conn, store, uuids,
          date, booking, doctorDocs, appointmentDocs, http>>

Keys == {"user_message", "user_Fname", "user_Lname", "user_email", "user_phonenumber",
         "booked", "appointment_date", "classification", "search_results", "response",
         "messages"}

\* the state of a fresh thread: no key has been written
MentalHealthAgentState ==
    [user_message |-> None, user_Fname |-> None, user_Lname |-> None,
     user_email |-> None, user_phonenumber |-> None, booked |-> None,
     appointment_date |-> NoDate, classification |-> NoClassification,
     search_results |-> NoResults, response |-> None, messages |-> << >>]

NoResume == [has |-> FALSE, val |-> None]

\* the result of one node: the keys it updates, their values, the messages
\* it adds and the nodes it schedules
NoWrites == [set |-> {}, val |-> MentalHealthAgentState, msgs |-> << >>, gotos |-> {}]

HumanMessage(content) == [type |-> "human", content |-> content]
AIMessage(content) == [type |-> "ai", content |-> content]

\* writes of two nodes of one superstep
Merge(a, b) ==
    [set |-> a.set \cup b.set,
     val |-> [k \in Keys |-> IF k \in b.set THEN b.val[k] ELSE a.val[k]],
     msgs |-> a.msgs \o b.msgs,
     gotos |-> a.gotos \cup b.gotos]

\* the channel update with the messages of the superstep replacing the history
add_messages_Replace(state, w) ==
    [k \in Keys |-> IF k = "messages"
                    THEN (IF w.msgs = << >> THEN state.messages ELSE w.msgs)
                    ELSE IF k \in w.set THEN w.val[k] ELSE state[k]]

\* the channel update at the end of a superstep: last value per key, and
\* add_messages on the key messages
add_messages(state, w) ==
    [k \in Keys |-> IF k = "messages" THEN state.messages \o w.msgs
                    ELSE IF k \in w.set THEN w.val[k] ELSE state[k]]

\* an event sent on the websocket; turn is the number of the query during
\* whose processing it is sent
Event(type, field, text, turn) == [type |-> type, field |-> field, text |-> text, turn |-> turn]

NoDoctor == [exists |-> FALSE, token |-> None, refresh_token |-> None,
             token_uri |-> None, calendar_connected |-> FALSE]
NoResult == [success |-> FALSE, error |-> None, appointment_id |-> None, event_id |-> None]

ChatInit ==
    /\ st = MentalHealthAgentState
    /\ tasks = {}
    /\ pw = NoWrites
    /\ intr = None
    /\ resume = NoResume
    /\ pc = "recv"
    /\ started = FALSE
    /\ out = << >>
    /\ turns = 0
    /\ resumed = << >>
    /\ walk = << >>
    /\ streamed = FALSE

\* no call of DoctorService.book_appointment is under way
SagaIdle ==
    /\ sagaPc = "idle"
    /\ patient_email = << >>
    /\ doctor = NoDoctor
    /\ event_id = None
    /\ appointment_id = None
    /\ calls = << >>
    /\ result = NoResult
    /\ run = 0
    /\ calendar = {}
    /\ appointments = {}

\* the two connections of the session model
SessConns == {"A", "B"}
ThreadIds == 1..Cardinality(SessConns)

\* a connection that has not been made yet
NoConn == [pc |-> "none", session_id |-> 0, presented |-> 0, started |-> FALSE,
           received |-> 0, sent |-> << >>]

\* a thread_id for which the store holds no checkpoint
NoThread == [exists |-> FALSE, values |-> MentalHealthAgentState, next |-> None]

\* no connection has been made and the store is empty
SessIdle ==
    /\ conn = [c \in SessConns |-> NoConn]
    /\ store = [t \in ThreadIds |-> NoThread]
    /\ uuids = 0

\* no call of book_appointment_algo has been made
NoNow == [month |-> 0, day |-> 0]
NoBooking == [status |-> None, date |-> NoDate]

AlgoIdle ==
    /\ date = NoNow
    /\ booking = NoBooking

\* the doctors, hospitals and appointments of the dashboard model
DoctorIds == {"doctor_1", "doctor_2"}
HospitalIds == {"hospital_1"}
AppointmentIds == {"a1", "a2"}

\* a key that a dict does not have (doc.get(key) gives None for it)
Absent == "absent"

\* the keys of a doctor document that the dashboard routes read, remove or
\* return; a document is a dict over them
DoctorKeys == {"id", "name", "email", "specialty", "hospital_id", "token", "refresh_token",
               "token_uri", "client_id", "client_secret", "calendar_connected"}

\* no document (get_doctor returns None), which `not doctor` does not
\* tell from an empty dict
NoDoc == [k \in DoctorKeys |-> Absent]

\* no document under an appointment id (get_appointment returns None)
NoAppointment == [exists |-> FALSE, doctor_id |-> None, status |-> None]

\* no request has been served
NoRequest == [op |-> None, cookie |-> None, appointment_id |-> None, status |-> None,
              code |-> 0, doctors |-> {}]

\* empty collections, no request served
DashIdle ==
    /\ doctorDocs = [d \in DoctorIds |-> NoDoc]
    /\ appointmentDocs = [a \in AppointmentIds |-> NoAppointment]
    /\ http = NoRequest

\* the websocket session after accept; the handler of app/app.py and the
\* graph of agent_core.py never call DoctorService.book_appointment
Init == ChatInit /\ SagaIdle /\ SessIdle /\ AlgoIdle /\ DashIdle


\* ------------------------------------------------------------------------
\* Websocket handler: input handling (app.py:87-112)
\* ------------------------------------------------------------------------

\* the except branch of the handler: the error text is sent and the socket closed
Fail ==
    /\ out' = Append(out, Event("error", None, "An unexpected error occurred", turns))
    /\ pc' = "closed"

\* a message with a "query" key and no type "resume": the first message or
\* a subsequent one.  astream with a new input starts a walk at START on
\* the thread: the input is written to the state, what was left of an
\* interrupted superstep is dropped, and read_request is scheduled.
ReceiveQuery(q) ==
    /\ UNCHANGED <<sagaVars, sessVars, algoVars, dashVars>>
    /\ pc = "recv"
    /\ turns < MaxTurns
    /\ turns' = turns + 1
    /\ started' = TRUE
    /\ st' = [st EXCEPT !.user_message = q]
    /\ tasks' = {"read_request"}
    /\ pw' = NoWrites
    /\ intr' = None
    /\ resume' = NoResume
    /\ walk' = << >>
    /\ streamed' = FALSE
    /\ pc' = "stream"
    /\ UNCHANGED <<out, resumed>>

\* a message {"type": "resume", "resume_value": v}
ReceiveResume(v) ==
    /\ UNCHANGED <<sagaVars, sessVars, algoVars, dashVars>>
    /\ pc = "recv"
    /\ Len(resumed) < MaxResumes
    /\ resumed' = IF started /\ intr # None THEN Append(resumed, v) ELSE resumed
    /\ UNCHANGED turns
    /\ streamed' = FALSE
    /\ IF ~started
       THEN \* the first message is read as a query: client_message["query"] raises KeyError
            /\ Fail
            /\ UNCHANGED <<st, tasks, pw, intr, resume, started, walk>>
       ELSE IF intr # None
       THEN \* Command(resume=v) on an interrupted thread: the superstep runs again
            /\ resume' = [has |-> TRUE, val |-> v]
            /\ intr' = None
            /\ pc' = "stream"
            /\ UNCHANGED <<st, tasks, pw, started, out, walk>>
       ELSE \* Command(resume=v) on a thread with nothing pending: astream
            \* yields nothing and the handler waits for the next message
            /\ UNCHANGED <<st, tasks, pw, intr, resume, pc, started, out, walk>>

\* the disconnect with a cleanup of the suspended walk
Disconnect_Cleanup ==
    /\ UNCHANGED <<sagaVars, sessVars, algoVars, dashVars>>
    /\ pc = "recv"
    /\ pc' = "closed"
    /\ intr' = None
    /\ tasks' = {}
    /\ pw' = NoWrites
    /\ UNCHANGED <<st, resume, started, out, turns, resumed, walk, streamed>>

\* WebSocketDisconnect out of receive_text (app.py:147-149)
Disconnect ==
    /\ UNCHANGED <<sagaVars, sessVars, algoVars, dashVars>>
    /\ pc = "recv"
    /\ pc' = "closed"
    /\ UNCHANGED <<st, tasks, pw, intr, resume, started, out, turns, resumed, walk, streamed>>

\* ------------------------------------------------------------------------
\* Graph executor
\* ------------------------------------------------------------------------

\* node n has returned w; evs are the events the handler sends for the
\* node's stream event.  When n is the last node of the superstep the
\* writes are applied and the next superstep is formed; the stream ends
\* when no node is scheduled.
Finish(n, w, evs) ==
    LET rest == tasks \ {n}
        all == Merge(pw, w)
    IN  /\ walk' = Append(walk, n)
        /\ out' = out \o evs
        /\ streamed' = TRUE
        /\ IF rest = {}
           THEN /\ st' = add_messages(st, all)
                /\ tasks' = all.gotos
                /\ pw' = NoWrites
                /\ pc' = IF all.gotos = {} THEN "recv" ELSE "stream"
           ELSE /\ tasks' = rest
                /\ pw' = all
                /\ pc' = "stream"
                /\ UNCHANGED st

\* node n has raised: the exception leaves astream (app.py:150-154)
Raise(n) ==
    /\ walk' = Append(walk, n)
    /\ Fail
    /\ UNCHANGED <<st, tasks, pw, streamed>>

\* read_request (agent_core.py:131-136) and the edge read_request -> classify_intent
read_request ==
    /\ UNCHANGED <<sagaVars, sessVars, algoVars, dashVars>>
    /\ pc = "stream"
    /\ "read_request" \in tasks
    /\ Finish("read_request",
              [NoWrites EXCEPT !.msgs = <<HumanMessage(st.user_message)>>,
                               !.gotos = {"classify_intent"}],
              << >>)
    /\ UNCHANGED <<intr, resume, started, turns, resumed>>

\* the goto that classify_intent computes (agent_core.py:159-166)
Goto(c) ==
    IF c.intent = "urgent_help" \/ c.urgency = "critical" THEN "respond"
    ELSE IF c.intent = "inquiry" THEN "search_website_info"
    ELSE IF c.intent = "booking" THEN "book_appointment"
    ELSE "respond"

\* the conditional edge with the entry of inquiry pointing at respond
ConditionalEdge_InquiryToRespond(c) ==
    CASE c.intent = "urgent_help" -> "respond"
      [] c.intent = "inquiry" -> "respond"
      [] c.intent = "booking" -> "book_appointment"
      [] c.intent = "conversational" -> "respond"

\* the conditional edge added on classify_intent (agent_core.py:385-394)
ConditionalEdge(c) ==
    CASE c.intent = "urgent_help" -> "respond"
      [] c.intent = "inquiry" -> "search_website_info"
      [] c.intent = "booking" -> "book_appointment"
      [] c.intent = "conversational" -> "respond"

\* the conditional edge evaluated on the classification of the checkpoint,
\* the one an earlier turn left
Route_Stale(c) ==
    {Goto(c)} \cup (IF st.classification.intent \in Intents
                    THEN {ConditionalEdge(st.classification)} ELSE {})

\* the nodes scheduled after classify_intent: a Command's goto adds to the
\* edges of the node, it does not replace them; the conditional edge reads
\* the state with the node's own update applied
Route(c) == {Goto(c), ConditionalEdge(c)}

\* classify_intent (agent_core.py:138-171)
classify_intent ==
    /\ UNCHANGED <<sagaVars, sessVars, algoVars, dashVars>>
    /\ pc = "stream"
    /\ "classify_intent" \in tasks
    /\ \E c \in ClassifyOutcomes :
         IF c.intent = "raise" \/ c.intent \notin Intents
         THEN \* ainvoke raised; or the intent is none of the four: no branch
              \* assigns goto (UnboundLocalError), or with urgency critical the
              \* conditional edge has no entry for it (KeyError)
              Raise("classify_intent")
         ELSE Finish("classify_intent",
                     [NoWrites EXCEPT !.set = {"classification"},
                                      !.val.classification = c,
                                      !.gotos = Route(c)],
                     << >>)
    /\ UNCHANGED <<intr, resume, started, turns, resumed>>

\* the search node asking the client for a better query when nothing is found
search_website_info_Suspends ==
    /\ UNCHANGED <<sagaVars, sessVars, algoVars, dashVars>>
    /\ pc = "stream"
    /\ "search_website_info" \in tasks
    /\ \E reformulated \in BOOLEAN, found \in BOOLEAN :
         IF ~reformulated
         THEN Raise("search_website_info") /\ UNCHANGED intr
         ELSE IF ~found
         THEN /\ intr' = "new_query"
              /\ out' = Append(out, Event("interrupt", "new_query", "Please rephrase", turns))
              /\ walk' = Append(walk, "search_website_info")
              /\ streamed' = TRUE
              /\ pc' = "recv"
              /\ UNCHANGED <<st, tasks, pw>>
         ELSE /\ Finish("search_website_info",
                        [NoWrites EXCEPT !.set = {"search_results"},
                                         !.val.search_results = Chunks,
                                         !.gotos = {"respond"}],
                        << >>)
              /\ UNCHANGED intr
    /\ UNCHANGED <<resume, started, turns, resumed>>

\* search_website_info (agent_core.py:173-192)
search_website_info ==
    /\ UNCHANGED <<sagaVars, sessVars, algoVars, dashVars>>
    /\ pc = "stream"
    /\ "search_website_info" \in tasks
    /\ \E reformulated \in BOOLEAN, found \in BOOLEAN :
         IF ~reformulated
         THEN \* the ainvoke of line 180 is outside the try
              Raise("search_website_info")
         ELSE Finish("search_website_info",
                     [NoWrites EXCEPT !.set = {"search_results"},
                                      !.val.search_results =
                                          IF found THEN Chunks ELSE SearchFailed,
                                      !.gotos = {"respond"}],
                     << >>)
    /\ UNCHANGED <<intr, resume, started, turns, resumed>>


\* random.randint(a, b)
randint(a, b) == a .. b

\* book_appointment_algo (agent_core.py:71-98): the (status, appointment_date)
\* pairs it can return when datetime.now() is the date now.  When no branch
\* assigns month and day, line 93 raises inside the try and the exception
\* becomes the status.
book_appointment_algo(now) ==
    IF now.day < 28 /\ now.month < 12
    THEN {[status |-> "True", date |-> [month |-> m, day |-> d, year |-> 0]] :
             m \in randint(now.month, 12), d \in randint(now.day, 28)}
    ELSE IF now.day >= 28 /\ now.month < 12
    THEN {[status |-> "True", date |-> [month |-> m, day |-> d, year |-> 0]] :
             m \in randint(now.month + 1, 12), d \in randint(1, 28)}
    ELSE IF now.day < 28 /\ now.month = 12
    THEN {[status |-> "True", date |-> [month |-> m, day |-> d, year |-> 1]] :
             m \in randint(1, 12), d \in randint(now.day, 28)}
    ELSE {[status |-> "Exception", date |-> NoDate]}

\* the checks with the Command of the last-name check updating user_Fname
Checks_LnameUpdatesFname ==
    <<[key |-> "user_Fname", type |-> "user_Fname", update |-> "user_Fname",
       request |-> "Before I proceed to book your appointment I'll need your first name"],
      [key |-> "user_Lname", type |-> "user_Lname", update |-> "user_Fname",
       request |-> "Next, I'll need your Last name"],
      [key |-> "user_phonenumber", type |-> "user_phonenumber", update |-> "user_phonenumber",
       request |-> "I'll also need your phone number to send appointment reminders"],
      [key |-> "user_email", type |-> "user_email", update |-> "user_email",
       request |-> "And finally i'll need your email address so we can keep in touch"]>>

\* the checks with the payload of the email check carrying the type of the
\* phone check
Checks_EmailTypedPhone ==
    <<[key |-> "user_Fname", type |-> "user_Fname", update |-> "user_Fname",
       request |-> "Before I proceed to book your appointment I'll need your first name"],
      [key |-> "user_Lname", type |-> "user_Lname", update |-> "user_Lname",
       request |-> "Next, I'll need your Last name"],
      [key |-> "user_phonenumber", type |-> "user_phonenumber", update |-> "user_phonenumber",
       request |-> "I'll also need your phone number to send appointment reminders"],
      [key |-> "user_email", type |-> "user_phonenumber", update |-> "user_email",
       request |-> "And finally i'll need your email address so we can keep in touch"]>>

\* the checks with the Command of the phone check updating user_email
Checks_PhoneUpdatesEmail ==
    <<[key |-> "user_Fname", type |-> "user_Fname", update |-> "user_Fname",
       request |-> "Before I proceed to book your appointment I'll need your first name"],
      [key |-> "user_Lname", type |-> "user_Lname", update |-> "user_Lname",
       request |-> "Next, I'll need your Last name"],
      [key |-> "user_phonenumber", type |-> "user_phonenumber", update |-> "user_email",
       request |-> "I'll also need your phone number to send appointment reminders"],
      [key |-> "user_email", type |-> "user_email", update |-> "user_email",
       request |-> "And finally i'll need your email address so we can keep in touch"]>>

\* the four checks of book_appointment in their order (agent_core.py:198-245):
\* the state key each check reads, the type of the interrupt payload it
\* raises, the prompt of that payload, and the key its Command updates
Checks ==
    <<[key |-> "user_Fname", type |-> "user_Fname", update |-> "user_Fname",
       request |-> "Before I proceed to book your appointment I'll need your first name"],
      [key |-> "user_Lname", type |-> "user_Lname", update |-> "user_Lname",
       request |-> "Next, I'll need your Last name"],
      [key |-> "user_phonenumber", type |-> "user_phonenumber", update |-> "user_phonenumber",
       request |-> "I'll also need your phone number to send appointment reminders"],
      [key |-> "user_email", type |-> "user_email", update |-> "user_email",
       request |-> "And finally i'll need your email address so we can keep in touch"]>>

\* the checks without the one of the email
FirstFailedCheck_NoEmail(s) ==
    IF Falsy(s[Checks[1].key]) THEN 1
    ELSE IF Falsy(s[Checks[2].key]) THEN 2
    ELSE IF Falsy(s[Checks[3].key]) THEN 3
    ELSE 0

\* the checks run with the last name asked before the first name
FirstFailedCheck_LnameFirst(s) ==
    IF Falsy(s[Checks[2].key]) THEN 2
    ELSE IF Falsy(s[Checks[1].key]) THEN 1
    ELSE IF Falsy(s[Checks[3].key]) THEN 3
    ELSE IF Falsy(s[Checks[4].key]) THEN 4
    ELSE 0

\* the checks with the email asked for again when all four pass
FirstFailedCheck_ReasksEmail(s) ==
    IF Falsy(s[Checks[1].key]) THEN 1
    ELSE IF Falsy(s[Checks[2].key]) THEN 2
    ELSE IF Falsy(s[Checks[3].key]) THEN 3
    ELSE 4

\* the first check of book_appointment that state s fails, 0 when it passes
\* all four (`if not state.get(key)`, one after the other)
FirstFailedCheck(s) ==
    IF Falsy(s[Checks[1].key]) THEN 1
    ELSE IF Falsy(s[Checks[2].key]) THEN 2
    ELSE IF Falsy(s[Checks[3].key]) THEN 3
    ELSE IF Falsy(s[Checks[4].key]) THEN 4
    ELSE 0

\* book_appointment (agent_core.py:194-260) together with the handling of
\* its interrupt by the handler (app.py:121-131)
book_appointment ==
    /\ UNCHANGED <<sagaVars, sessVars, algoVars, dashVars>>
    /\ pc = "stream"
    /\ "book_appointment" \in tasks
    /\ LET i == FirstFailedCheck(st) IN
       IF i # 0 /\ ~resume.has
       THEN \* interrupt() raises: the handler sends the interrupt with the
            \* payload's type as field and leaves the stream; the nodes of
            \* the superstep that have not finished are cancelled and run
            \* again at resume
            /\ intr' = Checks[i].type
            /\ out' = Append(out, Event("interrupt", Checks[i].type, Checks[i].request, turns))
            /\ walk' = Append(walk, "book_appointment")
            /\ streamed' = TRUE
            /\ pc' = "recv"
            /\ UNCHANGED <<st, tasks, pw, resume>>
       ELSE IF i # 0
       THEN \* interrupt() returns the resume value
            /\ Finish("book_appointment",
                      [NoWrites EXCEPT !.set = {Checks[i].update},
                                       !.val[Checks[i].update] = resume.val,
                                       !.gotos = {"book_appointment"}],
                      << >>)
            /\ resume' = NoResume
            /\ UNCHANGED intr
       ELSE \* all four values are there: finalize
            /\ \E now \in Dates : \E r \in book_appointment_algo(now) :
                 Finish("book_appointment",
                        [NoWrites EXCEPT !.set = {"booked", "appointment_date"},
                                         !.val.booked = r.status,
                                         !.val.appointment_date = r.date,
                                         !.gotos = {"respond"}],
                        << >>)
            /\ UNCHANGED <<intr, resume>>
    /\ UNCHANGED <<started, turns, resumed>>

\* respond (agent_core.py:262-354), the edge respond -> END, and the
\* handler's forwarding of the node's output (app.py:133-139)
respond ==
    /\ UNCHANGED <<sagaVars, sessVars, algoVars, dashVars>>
    /\ pc = "stream"
    /\ "respond" \in tasks
    /\ \E generated \in GenTexts \cup {"raise"} :
         IF generated = "raise"
         THEN Raise("respond")
         ELSE LET final_text == generated IN
              Finish("respond",
                     [NoWrites EXCEPT !.set = {"response"},
                                      !.val.response = final_text,
                                      !.msgs = <<AIMessage(final_text)>>],
                     <<Event("response", None, final_text, turns)>>)
    /\ UNCHANGED <<intr, resume, started, turns, resumed>>

Next ==
    \/ \E q \in Queries(turns + 1) : ReceiveQuery(q)
    \/ \E v \in ResumeValues : ReceiveResume(v)
    \/ Disconnect
    \/ read_request
    \/ classify_intent
    \/ search_website_info
    \/ book_appointment
    \/ respond

Spec == Init /\ [][Next]_vars

\* a step of the walk that astream drives (app.py:116): one of the nodes
\* scheduled in the running superstep returns, raises or interrupts
ExecutorStep ==
    \/ read_request
    \/ classify_intent
    \/ search_website_info
    \/ book_appointment
    \/ respond

\* the handler awaits astream until the stream ends, and every call of a
\* node to the model or the search returns or raises: a scheduled node is
\* eventually run.  Nothing is assumed about the client sending messages.
FairSpec == Spec /\ WF_vars(ExecutorStep)

\* ------------------------------------------------------------------------
\* DoctorService.book_appointment (doctor_service.py:64-126)
\* ------------------------------------------------------------------------

\* documents firebase_service.get_doctor can return for the doctor id: none
\* (also when the read raises), or a document with or without each credential
Doctors ==
    {NoDoctor} \cup
    [exists : {TRUE}, token : {None, "tok"}, refresh_token : {None, "ref"},
     token_uri : {None, "uri"}, calendar_connected : {FALSE}]

\* patient_email arguments, as sequences of characters
Emails == {<< >>, <<"j">>, <<"j", "@", "x">>}

\* what events().insert(...).execute() can do in the n-th call of
\* book_appointment: raise, or return a new event whose id is missing,
\* empty or set
InsertOutcomes(n) == {"raise", None, "", IF n = 1 THEN "ev1" ELSE IF n = 2 THEN "ev2" ELSE "ev3"}

\* what doc_ref.set can do in save_appointment: raise (None is returned) or
\* succeed (the id of the new document is returned)
SaveOutcomes(n) == {None, IF n = 1 THEN "ap1" ELSE IF n = 2 THEN "ap2" ELSE "ap3"}

Call(n, op, arg, res) == [run |-> n, op |-> op, arg |-> arg, res |-> res]

\* a caller awaits doctor_service.book_appointment(...)
SagaCall ==
    /\ sagaPc \in {"idle", "done"}
    /\ run < MaxRuns
    /\ run' = run + 1
    /\ sagaPc' = "start"
    /\ patient_email' \in Emails
    /\ doctor' = NoDoctor
    /\ event_id' = None
    /\ appointment_id' = None
    /\ result' = NoResult
    /\ UNCHANGED <<calls, calendar, appointments>>
    /\ UNCHANGED <<chatVars, sessVars, algoVars, dashVars>>

\* the calendar taken as connected when any of the three values is there
get_doctor_with_calendar_Any(d) ==
    IF ~d.exists THEN NoDoctor
    ELSE [d EXCEPT !.calendar_connected =
             Truthy(d.token) \/ Truthy(d.refresh_token) \/ Truthy(d.token_uri)]

\* get_doctor_with_calendar (doctor_service.py:10-24)
get_doctor_with_calendar(d) ==
    IF ~d.exists THEN NoDoctor
    ELSE [d EXCEPT !.calendar_connected =
             Truthy(d.token) /\ Truthy(d.refresh_token) /\ Truthy(d.token_uri)]

\* the test of the event id as `if event_id is None`
NotEventId_IsNone(e) == e = None

\* the test of the event id left out
NotEventId_Never(e) == FALSE

\* `if not event_id` (doctor_service.py:97)
NotEventId(e) == Falsy(e)

\* the test of the appointment id left out: no rollback
NotAppointmentId_Never(a) == FALSE

\* `if not appointment_id` (doctor_service.py:116)
NotAppointmentId(a) == Falsy(a)

\* lines 79-85: the doctor is read and the two early returns
SagaGetDoctor ==
    /\ sagaPc = "start"
    /\ \E d \in Doctors :
         LET doc == get_doctor_with_calendar(d) IN
         /\ doctor' = doc
         /\ IF ~doc.exists
            THEN /\ result' = [NoResult EXCEPT !.error = "Doctor not found"]
                 /\ sagaPc' = "done"
            ELSE IF ~doc.calendar_connected
            THEN /\ result' = [NoResult EXCEPT !.error = "Doctor calendar not connected"]
                 /\ sagaPc' = "done"
            ELSE /\ sagaPc' = "create"
                 /\ UNCHANGED result
    /\ UNCHANGED <<patient_email, event_id, appointment_id, calls, run, calendar, appointments>>
    /\ UNCHANGED <<chatVars, sessVars, algoVars, dashVars>>

\* '@' in patient_email
HasAt(e) == \E i \in DOMAIN e : e[i] = "@"

\* CalendarService.create_appointment (calendar_service.py:94-157): the
\* event id, or None when the email is refused or the insert raises
create_appointment(email, inserted) ==
    IF email = << >> \/ ~HasAt(email) THEN None
    ELSE IF inserted = "raise" THEN None
    ELSE inserted

\* lines 87-98: the calendar event is created
SagaCreate ==
    /\ sagaPc = "create"
    /\ \E inserted \in InsertOutcomes(run) :
         LET id == create_appointment(patient_email, inserted) IN
         /\ event_id' = id
         /\ calls' = Append(calls, Call(run, "create_appointment", None, id))
         /\ calendar' = IF id = None THEN calendar ELSE calendar \cup {id}
         /\ IF NotEventId(id)
            THEN /\ result' = [NoResult EXCEPT !.error = "Failed to create calendar event"]
                 /\ sagaPc' = "done"
            ELSE /\ sagaPc' = "save"
                 /\ UNCHANGED result
    /\ UNCHANGED <<patient_email, doctor, appointment_id, run, appointments>>
    /\ UNCHANGED <<chatVars, sessVars, algoVars, dashVars>>

\* lines 100-126: the appointment is saved; success is returned, or the
\* rollback is entered
SagaSave ==
    /\ sagaPc = "save"
    /\ \E id \in SaveOutcomes(run) :
         /\ appointment_id' = id
         /\ calls' = Append(calls, Call(run, "save_appointment", event_id, id))
         /\ appointments' = IF id = None THEN appointments
                            ELSE appointments \cup {[id |-> id, calendar_event_id |-> event_id]}
         /\ IF NotAppointmentId(id)
            THEN /\ sagaPc' = "cancel"
                 /\ UNCHANGED result
            ELSE /\ result' = [success |-> TRUE, error |-> None,
                               appointment_id |-> id, event_id |-> event_id]
                 /\ sagaPc' = "done"
    /\ UNCHANGED <<patient_email, doctor, event_id, run, calendar>>
    /\ UNCHANGED <<chatVars, sessVars, algoVars, dashVars>>

\* the rollback with the returned error depending on the result of the cancel
SagaCancel_ReportsCancel ==
    /\ sagaPc = "cancel"
    /\ \E ok \in BOOLEAN :
         /\ calls' = Append(calls, Call(run, "cancel_appointment", event_id, ok))
         /\ calendar' = IF ok THEN calendar \ {event_id} ELSE calendar
         /\ result' = [NoResult EXCEPT !.error = IF ok THEN "Failed to save appointment"
                                                  ELSE "Failed to cancel calendar event"]
    /\ sagaPc' = "done"
    /\ UNCHANGED <<patient_email, doctor, event_id, appointment_id, run, appointments>>
    /\ UNCHANGED <<chatVars, sessVars, algoVars, dashVars>>

\* lines 116-119: the rollback; cancel_appointment (calendar_service.py:159-179)
\* returns True, or False when the delete raises
SagaCancel ==
    /\ sagaPc = "cancel"
    /\ \E ok \in BOOLEAN :
         /\ calls' = Append(calls, Call(run, "cancel_appointment", event_id, ok))
         /\ calendar' = IF ok THEN calendar \ {event_id} ELSE calendar
    /\ result' = [NoResult EXCEPT !.error = "Failed to save appointment"]
    /\ sagaPc' = "done"
    /\ UNCHANGED <<patient_email, doctor, event_id, appointment_id, run, appointments>>
    /\ UNCHANGED <<chatVars, sessVars, algoVars, dashVars>>

SagaNext ==
    \/ SagaCall
    \/ SagaGetDoctor
    \/ SagaCreate
    \/ SagaSave
    \/ SagaCancel

SagaSpec == Init /\ [][SagaNext]_vars

\* ------------------------------------------------------------------------
\* Connections and sessions (app.py:65-154).  Two connections are served by
\* the same process; each call of websocket_endpoint has its own locals
\* and addresses the checkpoint store by the thread_id of its config.  The
\* walk of the graph is taken as one step here: what astream leaves in the
\* thread and what the handler sends.
\* ------------------------------------------------------------------------

\* str(uuid4()) (app.py:78) at the n-th call: an id that was not given before
uuid4_Constant(n) == 1

uuid4(n) == n + 1

\* the handler's send_json / send_text on connection c
Send(c, type) == Append(conn[c].sent, type)

\* websocket.accept() and the session setup (app.py:74-85).  p is the
\* session id the client holds from an earlier connection (0: none); the
\* endpoint reads no parameter, the id is always a new uuid4.
Accept(c, p) ==
    /\ conn[c].pc = "none"
    /\ uuids' = uuids + 1
    /\ conn' = [conn EXCEPT ![c] =
                  [NoConn EXCEPT !.pc = "recv",
                                 !.session_id = uuid4(uuids),
                                 !.presented = p,
                                 !.sent = <<"session_id">>]]
    /\ UNCHANGED store
    /\ UNCHANGED <<chatVars, sagaVars, algoVars, dashVars>>

\* a message with a "query" on connection c (app.py:96-100, 109-116):
\* astream starts a walk on the connection's thread.  o is where the walk
\* goes after classify_intent, or "raise" when a node raises.
SessionQuery(c) ==
    LET t == conn[c].session_id
        vals == [store[t].values EXCEPT !.user_message = "q1"]
        i == FirstFailedCheck(vals)
    IN  /\ conn[c].pc = "recv"
        /\ conn[c].received < MaxMsgs
        /\ \E o \in {"respond", "book_appointment", "raise"} :
             IF o = "raise"
             THEN /\ store' = [store EXCEPT ![t] = [exists |-> TRUE, values |-> vals, next |-> None]]
                  /\ conn' = [conn EXCEPT ![c].pc = "closed", ![c].started = TRUE,
                                          ![c].received = @ + 1, ![c].sent = Send(c, "error")]
             ELSE IF o = "book_appointment" /\ i # 0
             THEN /\ store' = [store EXCEPT ![t] = [exists |-> TRUE, values |-> vals,
                                                    next |-> Checks[i].type]]
                  /\ conn' = [conn EXCEPT ![c].started = TRUE, ![c].received = @ + 1,
                                          ![c].sent = Send(c, "interrupt")]
             ELSE /\ store' = [store EXCEPT ![t] = [exists |-> TRUE, values |-> vals, next |-> None]]
                  /\ conn' = [conn EXCEPT ![c].started = TRUE, ![c].received = @ + 1,
                                          ![c].sent = Send(c, "response")]
        /\ UNCHANGED uuids
        /\ UNCHANGED <<chatVars, sagaVars, algoVars, dashVars>>

\* a message of type "resume" on connection c (app.py:96-108, 116): the
\* first message is read as a query (KeyError); otherwise the value is
\* handed to the thread, where book_appointment takes it for the field it
\* had asked for and either asks for the next one or goes on to respond
SessionResume(c, v) ==
    LET t == conn[c].session_id
        i == FirstFailedCheck(store[t].values)
        vals == [store[t].values EXCEPT ![Checks[i].update] = v]
        j == FirstFailedCheck(vals)
    IN  /\ conn[c].pc = "recv"
        /\ conn[c].received < MaxMsgs
        /\ IF ~conn[c].started
           THEN /\ conn' = [conn EXCEPT ![c].pc = "closed", ![c].received = @ + 1,
                                        ![c].sent = Send(c, "error")]
                /\ UNCHANGED store
           ELSE IF store[t].next = None
           THEN /\ conn' = [conn EXCEPT ![c].received = @ + 1]
                /\ UNCHANGED store
           ELSE IF j # 0
           THEN /\ store' = [store EXCEPT ![t].values = vals, ![t].next = Checks[j].type]
                /\ conn' = [conn EXCEPT ![c].received = @ + 1, ![c].sent = Send(c, "interrupt")]
           ELSE \E generated \in BOOLEAN :
                /\ store' = [store EXCEPT ![t].values = vals, ![t].next = None]
                /\ conn' = [conn EXCEPT ![c].received = @ + 1,
                                        ![c].pc = IF generated THEN "recv" ELSE "closed",
                                        ![c].sent = Send(c, IF generated THEN "response" ELSE "error")]
        /\ UNCHANGED uuids
        /\ UNCHANGED <<chatVars, sagaVars, algoVars, dashVars>>

\* WebSocketDisconnect on connection c (app.py:147-149)
SessionDisconnect(c) ==
    /\ conn[c].pc = "recv"
    /\ conn' = [conn EXCEPT ![c].pc = "closed"]
    /\ UNCHANGED <<store, uuids>>
    /\ UNCHANGED <<chatVars, sagaVars, algoVars, dashVars>>

SessionNext ==
    \E c \in SessConns :
        \/ \E p \in 0..uuids : Accept(c, p)
        \/ SessionQuery(c)
        \/ \E v \in ResumeValues : SessionResume(c, v)
        \/ SessionDisconnect(c)

SessionSpec == Init /\ [][SessionNext]_vars

\* ------------------------------------------------------------------------
\* book_appointment_algo over the dates of a year (agent_core.py:71-98)
\* ------------------------------------------------------------------------

\* the values of (date.month, date.day) the function is considered for
Nows == [month : 1..12, day : 1..31]

\* datetime.now() is any of these dates
AlgoInit ==
    /\ ChatInit
    /\ SagaIdle
    /\ SessIdle
    /\ DashIdle
    /\ date \in Nows
    /\ booking = NoBooking

\* book_appointment_algo is called and returns
AlgoCall ==
    /\ booking = NoBooking
    /\ booking' \in book_appointment_algo(date)
    /\ UNCHANGED date
    /\ UNCHANGED <<chatVars, sagaVars, sessVars, dashVars>>

AlgoNext == AlgoCall

AlgoSpec == AlgoInit /\ [][AlgoNext]_vars

\* ------------------------------------------------------------------------
\* Dashboard routes (routers/doctor_dashboard.py, routers/hospital_dashboard.py)
\* ------------------------------------------------------------------------

\* values of the session cookie: none, the id of a doctor, the id of a hospital
Cookies == {None} \cup DoctorIds \cup HospitalIds

\* values of the status parameter of the status update
StatusValues == {"confirmed", "cancelled"}

\* doc.get(key)
get(doc, key) == IF doc[key] = Absent THEN None ELSE doc[key]

\* doc.pop(key, None)
pop(doc, key) == [doc EXCEPT ![key] = Absent]

\* document.set(data, merge=True) of save_doctor_credentials
\* (firebase_service.py:56-71): the keys of data are written, the others stay
save_doctor_credentials(doc, data) ==
    [k \in DoctorKeys |-> IF data[k] # Absent THEN data[k] ELSE doc[k]]

\* the document the signup writes for doctor d of hospital h
\* (firebase_auth_service.py:91-99)
doctor_data(d, h) ==
    [k \in DoctorKeys |->
        CASE k = "id" -> d
          [] k = "name" -> "Dr"
          [] k = "email" -> "dr@x"
          [] k = "specialty" -> "General Practice"
          [] k = "hospital_id" -> h
          [] OTHER -> Absent]

\* calendar_data of the OAuth callback (auth_routes.py:181-189); Google
\* sends the refresh token or leaves it out
calendar_data(refresh_token) ==
    [k \in DoctorKeys |->
        CASE k = "token" -> "tok"
          [] k = "refresh_token" -> refresh_token
          [] k = "token_uri" -> "uri"
          [] k = "client_id" -> "cid"
          [] k = "client_secret" -> "secret"
          [] k = "calendar_connected" -> "True"
          [] OTHER -> Absent]

\* the collections when the first request comes in: doctors that have
\* signed up, with or without a hospital, and pending appointments
DashInit ==
    /\ ChatInit
    /\ SagaIdle
    /\ SessIdle
    /\ AlgoIdle
    /\ doctorDocs \in
          {f \in [DoctorIds -> {NoDoc} \cup {doctor_data(d, h) :
                                               d \in DoctorIds, h \in HospitalIds \cup {None}}] :
              \A d \in DoctorIds : f[d] = NoDoc \/ f[d]["id"] = d}
    /\ appointmentDocs \in
          [AppointmentIds -> {NoAppointment} \cup
                             [exists : {TRUE}, doctor_id : DoctorIds, status : {"pending"}]]
    /\ http = NoRequest

NoUser == [type |-> None, id |-> None]

\* get_current_user (middleware.py:8-25); the documents of the hospitals
\* in HospitalIds exist
get_current_user(cookie) ==
    IF cookie = None THEN NoUser
    ELSE IF cookie \in DoctorIds /\ doctorDocs[cookie] # NoDoc
    THEN [type |-> "doctor", id |-> cookie]
    ELSE IF cookie \in HospitalIds
    THEN [type |-> "hospital", id |-> cookie]
    ELSE NoUser

\* require_doctor_auth (middleware.py:36-53): the doctor id, or None where
\* it raises 401
require_doctor_auth(cookie) ==
    LET user == get_current_user(cookie) IN
    IF user.type # "doctor" THEN None
    ELSE IF doctorDocs[user.id] = NoDoc THEN None
    ELSE user.id

\* require_hospital_auth (middleware.py:56-91): the hospital id with code
\* 200, or the status code it raises
require_hospital_auth(cookie) ==
    LET user == get_current_user(cookie) IN
    IF user = NoUser THEN [code |-> 401, id |-> None]
    ELSE IF user.type = "hospital" THEN [code |-> 200, id |-> user.id]
    ELSE LET hospital_id == get(doctorDocs[user.id], "hospital_id") IN
         IF Falsy(hospital_id) THEN [code |-> 403, id |-> None]
         ELSE IF hospital_id \notin HospitalIds THEN [code |-> 404, id |-> None]
         ELSE [code |-> 200, id |-> hospital_id]

\* get_doctors_by_hospital (firebase_service.py:100-115)
get_doctors_by_hospital(hospital_id) ==
    {[doctorDocs[d] EXCEPT !["id"] = d] :
        d \in {x \in DoctorIds : /\ doctorDocs[x] # NoDoc
                                 /\ doctorDocs[x]["hospital_id"] = hospital_id}}

\* the ownership test left out
NotAuthorized_Never(appointment, doctor_id) == FALSE

\* `if appointment.get("doctor_id") != doctor_id` (doctor_dashboard.py:85)
NotAuthorized(appointment, doctor_id) == appointment.doctor_id # doctor_id

\* PUT /api/appointments/{appointment_id}/status (doctor_dashboard.py:72-96)
\* with firebase_service.update_appointment_status (firebase_service.py:245-259),
\* whose update succeeds or raises
update_appointment_status(cookie, aid, status) ==
    LET doctor_id == require_doctor_auth(cookie)
        appointment == appointmentDocs[aid]
        request == [NoRequest EXCEPT !.op = "update_appointment_status",
                                     !.cookie = cookie,
                                     !.appointment_id = aid,
                                     !.status = status]
    IN  /\ UNCHANGED <<chatVars, sagaVars, sessVars, algoVars>>
        /\ UNCHANGED doctorDocs
        /\ IF doctor_id = None
           THEN /\ http' = [request EXCEPT !.code = 401]
                /\ UNCHANGED appointmentDocs
           ELSE IF ~appointment.exists
           THEN /\ http' = [request EXCEPT !.code = 404]
                /\ UNCHANGED appointmentDocs
           ELSE IF NotAuthorized(appointment, doctor_id)
           THEN /\ http' = [request EXCEPT !.code = 403]
                /\ UNCHANGED appointmentDocs
           ELSE \E success \in BOOLEAN :
                  IF success
                  THEN /\ appointmentDocs' =
                            [appointmentDocs EXCEPT ![aid].status = status]
                       /\ http' = [request EXCEPT !.code = 200]
                  ELSE /\ http' = [request EXCEPT !.code = 500]
                       /\ UNCHANGED appointmentDocs

\* GET /callback of the calendar link (auth_routes.py:145-207) for the
\* doctor id in the state parameter
google_calendar_callback(doctor_id) ==
    LET request == [NoRequest EXCEPT !.op = "google_calendar_callback", !.cookie = doctor_id]
    IN  /\ UNCHANGED <<chatVars, sagaVars, sessVars, algoVars>>
        /\ UNCHANGED appointmentDocs
        /\ IF doctorDocs[doctor_id] = NoDoc
           THEN /\ http' = [request EXCEPT !.code = 404]
                /\ UNCHANGED doctorDocs
           ELSE \E refresh_token \in {None, "ref"}, success \in BOOLEAN :
                  IF success
                  THEN /\ doctorDocs' =
                            [doctorDocs EXCEPT ![doctor_id] =
                                save_doctor_credentials(@, calendar_data(refresh_token))]
                       /\ http' = [request EXCEPT !.code = 307]
                  ELSE /\ http' = [request EXCEPT !.code = 500]
                       /\ UNCHANGED doctorDocs

\* GET /hospital/api/dashboard (hospital_dashboard.py:27-84): the doctors
\* of the response
get_hospital_dashboard(cookie) ==
    LET auth == require_hospital_auth(cookie)
        request == [NoRequest EXCEPT !.op = "get_hospital_dashboard", !.cookie = cookie]
    IN  /\ UNCHANGED <<chatVars, sagaVars, sessVars, algoVars>>
        /\ UNCHANGED <<doctorDocs, appointmentDocs>>
        /\ IF auth.code # 200
           THEN http' = [request EXCEPT !.code = auth.code]
           ELSE http' = [request EXCEPT
                            !.code = 200,
                            !.doctors = {pop(pop(pop(d, "token"), "refresh_token"), "token_uri") :
                                            d \in get_doctors_by_hospital(auth.id)}]

\* GET /hospital/api/doctors (hospital_dashboard.py:87-110): safe_doctors
get_hospital_doctors(cookie) ==
    LET auth == require_hospital_auth(cookie)
        request == [NoRequest EXCEPT !.op = "get_hospital_doctors", !.cookie = cookie]
        has_calendar(d) == /\ Truthy(get(d, "token"))
                           /\ Truthy(get(d, "refresh_token"))
                           /\ Truthy(get(d, "token_uri"))
        safe(d) == [k \in DoctorKeys |->
                       IF k \in {"id", "name", "email", "specialty"} THEN get(d, k)
                       ELSE IF k = "calendar_connected"
                       THEN (IF has_calendar(d) THEN "True" ELSE "False")
                       ELSE Absent]
    IN  /\ UNCHANGED <<chatVars, sagaVars, sessVars, algoVars>>
        /\ UNCHANGED <<doctorDocs, appointmentDocs>>
        /\ IF auth.code # 200
           THEN http' = [request EXCEPT !.code = auth.code]
           ELSE http' = [request EXCEPT
                            !.code = 200,
                            !.doctors = {safe(d) : d \in get_doctors_by_hospital(auth.id)}]

DashNext ==
    \/ \E cookie \in Cookies, a \in AppointmentIds, s \in StatusValues :
          update_appointment_status(cookie, a, s)
    \/ \E d \in DoctorIds : google_calendar_callback(d)
    \/ \E cookie \in Cookies : get_hospital_dashboard(cookie)
    \/ \E cookie \in Cookies : get_hospital_doctors(cookie)

DashSpec == DashInit /\ [][DashNext]_vars

\* ------------------------------------------------------------------------
\* Properties
\* ------------------------------------------------------------------------

Executed(n) == \E i \in DOMAIN walk : walk[i] = n

\* the classification in st is the one of the current turn
Classified == Executed("classify_intent") /\ st.classification # NoClassification
                /\ (pc = "closed" => walk[Len(walk)] # "classify_intent")

Crisis(c) == c.intent = "urgent_help" \/ c.urgency = "critical"

\* C1: urgency dominance.  In a turn whose classification has urgency
\* critical, whatever the intent, the node executed after classify_intent
\* is respond and neither book_appointment nor search_website_info is
\* executed in that turn.
C1_UrgencyDominance ==
    (Classified /\ st.classification.urgency = "critical") =>
        /\ ~Executed("book_appointment")
        /\ ~Executed("search_website_info")
        /\ (Len(walk) >= 3 => walk[3] = "respond")

\* C2: crisis contact rule.  Every reply sent in a turn whose classification
\* has intent urgent_help or urgency critical contains the support line.
C2_CrisisContact ==
    (Classified /\ Crisis(st.classification)) =>
        \A i \in DOMAIN out :
            (out[i].type = "response" /\ out[i].turn = turns) =>
                ContainsCrisisContact(out[i].text)

\* the routing table of the specification for stable urgency
StableRoute(intent) ==
    CASE intent = "urgent_help" -> "respond"
      [] intent = "inquiry" -> "search_website_info"
      [] intent = "booking" -> "book_appointment"
      [] intent = "conversational" -> "respond"

\* C3: routing for stable urgency.  When the classification of the turn has
\* urgency stable, exactly one node is scheduled after classify_intent, the
\* one the table gives for the intent, and it is the node executed next.
C3_StableRouting ==
    (Classified /\ st.classification.urgency = "stable") =>
        /\ (Len(walk) = 2 => tasks = {StableRoute(st.classification.intent)})
        /\ (Len(walk) >= 3 => walk[3] = StableRoute(st.classification.intent))

\* a stable inquiry has been routed to the search node, which has run
C3_Witness ==
    /\ Classified
    /\ st.classification = [intent |-> "inquiry", urgency |-> "stable"]
    /\ Len(walk) >= 3
    /\ walk[3] = "search_website_info"

\* the priority order of the collected fields
FieldOrder == <<"user_Fname", "user_Lname", "user_phonenumber", "user_email">>

\* a field is present when it holds a non-empty value; None and the empty
\* string are what the collection node treats as missing
Present(s, f) == Truthy(s[f])

AllPresent(s) == \A i \in 1..4 : Present(s, FieldOrder[i])

\* the first absent field in the priority order, None when all are present
FirstAbsent(s) ==
    IF AllPresent(s) THEN None
    ELSE FieldOrder[CHOOSE i \in 1..4 :
                        /\ ~Present(s, FieldOrder[i])
                        /\ \A j \in 1..(i - 1) : Present(s, FieldOrder[j])]

Interrupts(events) == SelectSeq(events, LAMBDA e : e.type = "interrupt")

\* C4: an invocation of the collection node suspends at most once, and when
\* it suspends, the field it requests and the field named in the interrupt
\* event is the first absent field in the order first name, last name,
\* phone, email: no earlier field is absent and the field itself is not
\* present.
C4_FirstAbsentField ==
    /\ [](intr # None =>
            /\ intr = FirstAbsent(st)
            /\ out # << >>
            /\ out[Len(out)].type = "interrupt"
            /\ out[Len(out)].field = intr)
    /\ [][Len(Interrupts(out')) <= Len(Interrupts(out)) + 1]_vars

\* the node asks for the phone number, the third field, with both names present
C4_Witness ==
    /\ intr = "user_phonenumber"
    /\ Present(st, "user_Fname")
    /\ Present(st, "user_Lname")
    /\ out[Len(out)].field = "user_phonenumber"

C6_ResumeChaining ==
    \A i, j \in DOMAIN out :
        (/\ i < j
         /\ out[i].type = "interrupt"
         /\ out[j].type = "interrupt"
         /\ out[i].turn = out[j].turn)
        => \A k \in (i + 1)..(j - 1) : out[k].type = "interrupt"

InterruptFields == [i \in DOMAIN Interrupts(out) |-> Interrupts(out)[i].field]

\* the collection has completed and respond has sent the reply of the turn
CompletedAndReplied ==
    /\ pc = "recv"
    /\ intr = None
    /\ AllPresent(st)
    /\ Truthy(st.booked)
    /\ Len(walk) >= 2
    /\ walk[Len(walk) - 1] = "book_appointment"
    /\ walk[Len(walk)] = "respond"
    /\ out[Len(out)].type = "response"

BookingReady(s) == Truthy(s.booked)

\* C8: booking-ready invariant.  The marker is set only when all four
\* fields are present, and once set it is never unset.
C8_BookingReady ==
    /\ [](BookingReady(st) => AllPresent(st))
    /\ [][BookingReady(st) => BookingReady(st')]_vars

\* the marker is set and a later turn has run the collection node again
C8_Witness ==
    /\ BookingReady(st)
    /\ turns = 2
    /\ Executed("book_appointment")
    /\ pc = "recv"

\* C9: the booking saga is part of the chat workflow.  When the collection
\* node has completed and the reply of that turn has been sent, the
\* calendar event has been requested (create_appointment has been called).
C9_SagaInWorkflow ==
    CompletedAndReplied => \E k \in DOMAIN calls : calls[k].op = "create_appointment"

CallsOf(n, op) == {k \in DOMAIN calls : calls[k].run = n /\ calls[k].op = op}

\* C10: saga ordering, persist step.  In every run save_appointment is
\* called at most once, only after a create_appointment of the same run that
\* returned an event id, and a run that has ended has called it whenever its
\* create_appointment returned an event id.
C10_PersistIffCreated ==
    \A n \in 1..run :
        /\ Cardinality(CallsOf(n, "save_appointment")) <= 1
        /\ \A k \in CallsOf(n, "save_appointment") :
               \E j \in CallsOf(n, "create_appointment") :
                   j < k /\ Truthy(calls[j].res) /\ calls[k].arg = calls[j].res
        /\ ((n < run \/ sagaPc = "done") =>
               \A j \in CallsOf(n, "create_appointment") :
                   Truthy(calls[j].res) => CallsOf(n, "save_appointment") # {})

\* a run has ended in which the event was created and the appointment saved
C10_Witness ==
    /\ sagaPc = "done"
    /\ run >= 1
    /\ CallsOf(run, "save_appointment") # {}
    /\ \E j \in CallsOf(run, "create_appointment") : calls[j].res = "ev1"

\* run n has ended
Ended(n) == n < run \/ sagaPc = "done"

\* C11: saga ordering, compensation step.  In every run cancel_appointment
\* is called at most once, only after a create_appointment of the run that
\* returned an event id and a later save_appointment of the run that
\* failed, and with that event id; a run that has ended has called it
\* whenever its save_appointment failed.
C11_CancelIffPersistFailed ==
    \A n \in 1..run :
        /\ Cardinality(CallsOf(n, "cancel_appointment")) <= 1
        /\ \A c \in CallsOf(n, "cancel_appointment") :
               \E j \in CallsOf(n, "create_appointment"), k \in CallsOf(n, "save_appointment") :
                   /\ j < k /\ k < c
                   /\ Truthy(calls[j].res)
                   /\ Falsy(calls[k].res)
                   /\ calls[c].arg = calls[j].res
        /\ (Ended(n) =>
               \A k \in CallsOf(n, "save_appointment") :
                   Falsy(calls[k].res) => CallsOf(n, "cancel_appointment") # {})

\* the second run has created its event, failed to save and cancelled it
C11_Witness ==
    /\ run = 2
    /\ sagaPc = "done"
    /\ \E c \in CallsOf(2, "cancel_appointment") : calls[c].arg = "ev2"
    /\ \E k \in CallsOf(2, "save_appointment") : calls[k].res = None

\* the documents of the collection that run n has written
RunRecords(n) ==
    {a \in appointments : \E k \in CallsOf(n, "save_appointment") : a.id = calls[k].res}

\* C12: saga outcome.  A run returns success exactly when its
\* create_appointment and its save_appointment both succeeded; then no
\* cancel was issued and the event and the appointment document both
\* exist; after a returned failure no document of the run is in the store.
C12_SagaOutcome ==
    (run >= 1 /\ sagaPc = "done") =>
        /\ result.success <=>
               /\ \E j \in CallsOf(run, "create_appointment") : Truthy(calls[j].res)
               /\ \E k \in CallsOf(run, "save_appointment") : Truthy(calls[k].res)
        /\ result.success =>
               /\ CallsOf(run, "cancel_appointment") = {}
               /\ Truthy(result.event_id)
               /\ result.event_id \in calendar
               /\ [id |-> result.appointment_id, calendar_event_id |-> result.event_id]
                      \in appointments
        /\ ~result.success => RunRecords(run) = {}

\* a run has returned success after an earlier run that failed at the save
C12_Witness ==
    /\ run = 2
    /\ sagaPc = "done"
    /\ result.success
    /\ CallsOf(1, "cancel_appointment") # {}
    /\ appointments # {}

\* C13: best-effort compensation.  When the save fails after the event was
\* created, the run ends with the same failure whether cancel_appointment
\* returned True or False, and the cancel is called once (no retry).
C13_BestEffortCancel ==
    (run >= 1 /\ sagaPc = "done" /\ CallsOf(run, "cancel_appointment") # {}) =>
        /\ result = [NoResult EXCEPT !.error = "Failed to save appointment"]
        /\ Cardinality(CallsOf(run, "cancel_appointment")) = 1

\* a run has ended whose cancel failed: the event is still in the calendar
C13_Witness ==
    /\ sagaPc = "done"
    /\ \E c \in CallsOf(run, "cancel_appointment") :
           calls[c].res = FALSE /\ calls[c].arg \in calendar

\* C14: replay does not re-suspend.  When the collection node is invoked
\* with no resume value in a state where all four fields are present, it
\* sends no interrupt and leaves no suspension pending: it schedules respond.
C14_ReplayNoSuspend ==
    [][(/\ AllPresent(st)
        /\ ~resume.has
        /\ pc = "stream"
        /\ "book_appointment" \in tasks
        /\ walk' = Append(walk, "book_appointment"))
       => (/\ intr' = None
           /\ Interrupts(out') = Interrupts(out)
           /\ pc' = "stream"
           /\ "respond" \in tasks')]_vars

\* the collection was completed in the first turn; a second booking turn
\* has run the collection node and respond with no further interrupt
C14_Witness ==
    /\ turns = 2
    /\ pc = "recv"
    /\ walk = <<"read_request", "classify_intent", "book_appointment", "respond">>
    /\ AllPresent(st)
    /\ Len(Interrupts(out)) = 4
    /\ \A i \in DOMAIN out : out[i].type = "interrupt" => out[i].turn = 1

\* C15: replay does not duplicate the booking.  Once the marker is set, no
\* later invocation of the collection node books again: the marker and the
\* appointment date are assigned at most once in a session.
C15_BookingOnce ==
    [][BookingReady(st) =>
          /\ st'.booked = st.booked
          /\ st'.appointment_date = st.appointment_date]_vars

\* C16: turn while suspended.  A query received while an interrupt is
\* pending is answered with an error event; no walk is started, the
\* suspension stays pending on the same field and the state is unchanged.
C16_TurnWhileSuspended ==
    [][(intr # None /\ turns' = turns + 1) =>
          /\ out' = Append(out, Event("error", None, "An unexpected error occurred", turns'))
          /\ intr' = intr
          /\ st' = st
          /\ walk' = walk
          /\ tasks' = tasks]_vars

\* C17: resume without pending suspension.  When a resume has been
\* received after the session's first turn with no interrupt pending (the
\* stream of that message was empty and the handler waits again), the last
\* event sent is an error event.
C17_StrayResumeRejected ==
    (started /\ pc = "recv" /\ ~streamed) =>
        /\ out # << >>
        /\ out[Len(out)].type = "error"

IsPrefix(a, b) == Len(a) <= Len(b) /\ \A i \in DOMAIN a : a[i] = b[i]

\* C18: the message history is append-only.  Over every step of a session
\* (turn, resume, failure) the history before the step is a prefix of the
\* history after it.
C18_AppendOnly ==
    [][IsPrefix(st.messages, st'.messages)]_vars

\* a second turn has failed after its message was added to the history of
\* a first turn that was answered
C18_Witness ==
    /\ turns = 2
    /\ pc = "closed"
    /\ out[Len(out)].type = "error"
    /\ Len(st.messages) = 3
    /\ st.messages[2].type = "ai"
    /\ st.messages[3] = HumanMessage("q2")

\* C19: search degradation.  The search node never fails the turn: the
\* session is never closed with an error sent out of search_website_info.
C19_SearchDegrades ==
    ~(/\ pc = "closed"
      /\ walk # << >>
      /\ walk[Len(walk)] = "search_website_info"
      /\ out[Len(out)].type = "error")

\* C20: a classification failure is not routed.  A classification with an
\* intent or an urgency outside the allowed values is never stored and
\* routed, and when classify_intent fails the turn ends with an error
\* event, with no reply and no interrupt sent in that turn.
C20_ClassifyFailureNotRouted ==
    /\ st.classification.intent \in Intents \cup {None}
    /\ st.classification.urgency \in Urgencies \cup {None}
    /\ (pc = "closed" /\ walk # << >> /\ walk[Len(walk)] = "classify_intent") =>
          /\ out[Len(out)].type = "error"
          /\ \A i \in DOMAIN out : out[i].turn = turns => out[i].type = "error"

\* the turn has ended with the error sent for an exception out of node n
FailedIn(n) ==
    /\ pc = "closed"
    /\ walk # << >>
    /\ walk[Len(walk)] = n
    /\ out # << >>
    /\ out[Len(out)].type = "error"

\* C21: a classification failure leaves the state clean.  After a turn
\* whose Classify call failed the stored state holds no classification
\* (also when an earlier turn had set one) and the message history has not
\* gained the message of the failed turn.
C21_CleanAfterClassifyFailure ==
    FailedIn("classify_intent") =>
        /\ st.classification = NoClassification
        /\ \A i \in DOMAIN st.messages : st.messages[i] # HumanMessage(st.user_message)

\* C22: a synthesis failure preserves prior work.  When Generate fails in
\* respond the turn ends with an error event and no reply has been sent in
\* that turn, and the failing step leaves the stored state as it was when
\* respond started (no assistant message is added).
C22_SynthesisFailure ==
    /\ [](FailedIn("respond") =>
             \A i \in DOMAIN out : out[i].turn = turns => out[i].type # "response")
    /\ [][(pc = "stream" /\ "respond" \in tasks /\ pc' = "closed") => st' = st]_vars

\* C23: a turn-level failure is not fatal to the session.  After the error
\* of a classification or synthesis failure has been sent, the handler of
\* the session is receiving again.
C23_FailureNotFatal ==
    (/\ out # << >>
     /\ out[Len(out)].type = "error"
     /\ walk # << >>
     /\ walk[Len(walk)] \in {"classify_intent", "respond"})
    => pc = "recv"

\* C25: abandonment is a no-op on the stored state.  Closing the transport
\* while the session is suspended changes neither the checkpoint, nor the
\* pending interrupt, nor the nodes and writes kept for the resume.
C25_AbandonNoCleanup ==
    [][(pc = "recv" /\ intr # None /\ pc' = "closed") =>
          /\ st' = st
          /\ intr' = intr
          /\ tasks' = tasks
          /\ pw' = pw]_vars

\* the client has left while the last name was being asked for
C25_Witness ==
    /\ pc = "closed"
    /\ intr = "user_Lname"
    /\ out[Len(out)].type = "interrupt"
    /\ Present(st, "user_Fname")
    /\ "book_appointment" \in tasks

\* C26: per-session serialization.  At no time are two node executions of
\* the session in progress, and a message is only received when the turn
\* has reached an interrupt, a reply or an error.
C26_Serialized ==
    /\ Cardinality(tasks) <= 1
    /\ (pc = "recv" => (tasks = {} \/ intr # None))

\* C28: only the collection node suspends.  A pending interrupt was raised
\* by book_appointment, for one of the four fields, and every interrupt
\* event names one of the four fields.
C28_OnlyCollectionSuspends ==
    /\ intr # None =>
          /\ \E i \in 1..4 : intr = FieldOrder[i]
          /\ "book_appointment" \in tasks
          /\ walk[Len(walk)] = "book_appointment"
    /\ \A k \in DOMAIN out :
          out[k].type = "interrupt" => \E i \in 1..4 : out[k].field = FieldOrder[i]

\* an inquiry turn has run the search node and been answered, and a later
\* booking turn is suspended at the email
C28_Witness ==
    /\ intr = "user_email"
    /\ turns = 2
    /\ st.search_results # NoResults
    /\ \E k \in DOMAIN out : out[k].type = "response" /\ out[k].turn = 1

\* C29: checkpoint lifecycle, creation.  A checkpoint is written after
\* every node execution: no node has finished whose writes are not in the
\* latest checkpoint.
C29_CheckpointAfterEveryNode ==
    pw = NoWrites

\* C30: the classification is set at most once per turn, and the nodes
\* scheduled after classify_intent are those of the classification
\* produced in that turn.
C30_RoutingFromThisTurn ==
    /\ Cardinality({i \in DOMAIN walk : walk[i] = "classify_intent"}) <= 1
    /\ (pc = "stream" /\ Len(walk) = 2 /\ walk[2] = "classify_intent") =>
          tasks = {Goto(st.classification), StableRoute(st.classification.intent)}

\* the first turn was an inquiry; the second turn has been classified as a
\* booking and the collection node is scheduled
C30_Witness ==
    /\ turns = 2
    /\ pc = "stream"
    /\ walk = <<"read_request", "classify_intent">>
    /\ st.search_results = Chunks
    /\ st.classification = [intent |-> "booking", urgency |-> "stable"]
    /\ tasks = {"book_appointment"}

\* C24: resume after disconnect.  A connection made by a client that holds
\* the session id of an earlier connection works on the thread of that id.
C24_ReconnectBySessionId ==
    \A c \in SessConns :
        conn[c].presented # 0 => conn[c].session_id = conn[c].presented

\* the thread that connection c works on
ThreadOf(c) == store[conn[c].session_id]

\* C27: cross-session isolation.  The open sessions have different
\* threads, and a step of one session changes neither the handler state and
\* the events sent of the other session nor the other session's thread.
C27_Isolation ==
    /\ [](\A c, d \in SessConns :
             (c # d /\ conn[c].pc # "none" /\ conn[d].pc # "none") =>
                 conn[c].session_id # conn[d].session_id)
    /\ [][\A c, d \in SessConns :
             (c # d /\ conn[c].pc # "none" /\ conn[d].pc # "none" /\ conn'[c] # conn[c]) =>
                 /\ conn'[d] = conn[d]
                 /\ store'[conn[d].session_id] = ThreadOf(d)]_vars

\* the two sessions are suspended at different fields, each on its own thread
C27_Witness ==
    /\ conn["A"].pc = "recv"
    /\ conn["B"].pc = "recv"
    /\ ThreadOf("A").next = "user_Lname"
    /\ ThreadOf("B").next = "user_Fname"
    /\ Present(ThreadOf("A").values, "user_Fname")
    /\ ~Present(ThreadOf("B").values, "user_Fname")

\* the reply events sent during turn t
Replies(t) == {k \in DOMAIN out : out[k].type = "response" /\ out[k].turn = t}

\* C31: at most one reply per turn.  For every classification respond is
\* executed at most once in a turn and at most one reply event is sent in
\* it, and a turn that ends with an interrupt has sent no reply event.
C31_AtMostOneReply ==
    /\ Cardinality({i \in DOMAIN walk : walk[i] = "respond"}) <= 1
    /\ \A t \in 1..turns : Cardinality(Replies(t)) <= 1
    /\ (pc = "recv" /\ intr # None) => Replies(turns) = {}

Humans(ms) == SelectSeq(ms, LAMBDA m : m.type = "human")

Assistants(ms) == SelectSeq(ms, LAMBDA m : m.type = "ai")

\* the turn has reached respond and has ended with its reply
TurnReplied ==
    /\ pc = "recv"
    /\ intr = None
    /\ Executed("respond")

\* C32: history per turn.  Each turn overwrites user_message and appends
\* exactly one user entry with that text before the classification, and a
\* turn that reaches respond appends exactly one assistant entry, after that
\* user entry, whose text is the reply sent and the value of response.
C32_HistoryPerTurn ==
    /\ Len(walk) >= 1 =>
          /\ walk[1] = "read_request"
          /\ Len(Humans(st.messages)) = turns
          /\ Humans(st.messages)[turns] = HumanMessage(st.user_message)
    /\ Len(Assistants(st.messages)) <= turns
    /\ TurnReplied =>
          /\ Len(st.messages) >= 2
          /\ st.messages[Len(st.messages) - 1] = HumanMessage(st.user_message)
          /\ st.messages[Len(st.messages)] = AIMessage(st.response)
          /\ out[Len(out)] = Event("response", None, st.response, turns)

\* an interrupt has been sent in the turn and the collection is not complete
Collecting ==
    /\ \E k \in DOMAIN out : out[k].type = "interrupt" /\ out[k].turn = turns
    /\ ~AllPresent(st)

\* C33: frame of a resume.  From the first interrupt of a turn until the
\* collection is complete, a step of that turn changes no collected field
\* other than the pending one and leaves user_message, classification,
\* search_results and messages as they are.
C33_ResumeFrame ==
    [][(Collecting /\ turns' = turns) =>
          /\ \A i \in 1..4 :
                FieldOrder[i] # FirstAbsent(st) => st'[FieldOrder[i]] = st[FieldOrder[i]]
          /\ st'.user_message = st.user_message
          /\ st'.classification = st.classification
          /\ st'.search_results = st.search_results
          /\ st'.messages = st.messages]_vars

\* no field is requested twice in one turn, and a turn suspends at most
\* four times
NoFieldRequestedAgain ==
    /\ \A a, b \in DOMAIN out :
          (/\ a < b
           /\ out[a].type = "interrupt"
           /\ out[b].type = "interrupt"
           /\ out[a].turn = out[b].turn) => out[a].field # out[b].field
    /\ \A t \in 1..turns :
          Cardinality({k \in DOMAIN out : out[k].type = "interrupt" /\ out[k].turn = t}) <= 4

\* the fields whose value is in the state or among the writes of the
\* running superstep
Collected ==
    {i \in 1..4 : \/ Present(st, FieldOrder[i])
                  \/ FieldOrder[i] \in pw.set /\ Truthy(pw.val[FieldOrder[i]])}

\* C34 as stated: whatever the resume value, the empty string included, a
\* field for which a resume was received is never requested again, so a
\* booking flow suspends at most four times before it reaches respond.
C34_ResumeSatisfies ==
    /\ NoFieldRequestedAgain
    /\ intr # None => ~Present(st, intr)

\* C34 amended: the same for resumes that carry a non-empty value.  Each of
\* them fills one field for the rest of the session, and a field that holds
\* a value is not requested.
C34_NonEmptyResumeSatisfies ==
    /\ intr # None => ~Present(st, intr)
    /\ (\A i \in DOMAIN resumed : resumed[i] # "") =>
          /\ NoFieldRequestedAgain
          /\ Cardinality(Collected) + (IF resume.has THEN 1 ELSE 0) = Len(resumed)

\* the first turn was left at the request for the phone number; the second
\* turn has asked for the phone number and the email, each once, and the
\* three non-empty resumes of the session have filled three fields
C34_Witness ==
    /\ turns = 2
    /\ resumed = <<"Jane", "Jane", "Jane">>
    /\ intr = "user_email"
    /\ Present(st, "user_Fname")
    /\ Present(st, "user_Lname")
    /\ Present(st, "user_phonenumber")
    /\ Cardinality({k \in DOMAIN out : out[k].type = "interrupt" /\ out[k].turn = 2}) = 2

\* every walk that astream has started ends: the handler gets back to
\* receive_text or closes the socket
TurnTerminates == (pc = "stream") ~> (pc # "stream")

\* every message the handler has taken has led to one event: an event that
\* is followed by another event of the same turn is an interrupt (the next
\* event answers the resume of that interrupt), and the stream of the last
\* message has not ended empty
OneEventPerMessage ==
    /\ \A i, j \in DOMAIN out :
          (i < j /\ out[i].turn = out[j].turn) => out[i].type = "interrupt"
    /\ (pc = "recv" /\ started) => streamed

\* C35: every turn terminates.  Under weak fairness of the executor, and
\* with every call to the model and the search returning or raising, every
\* query or resume the handler takes leads to exactly one interrupt, reply
\* or error event, and the walk does not go on forever.
C35_TurnTerminates ==
    /\ TurnTerminates
    /\ []OneEventPerMessage

\* the doctor read by the run is missing, or one of token, refresh_token
\* and token_uri is missing in the document
NoConnectedCalendar(d) ==
    \/ ~d.exists
    \/ Falsy(d.token)
    \/ Falsy(d.refresh_token)
    \/ Falsy(d.token_uri)

\* C36: saga preconditions.  When the doctor is not found or has no
\* connected calendar, book_appointment returns success = false and calls
\* none of create_appointment, save_appointment and cancel_appointment in
\* that run.
C36_SagaPreconditions ==
    (run >= 1 /\ NoConnectedCalendar(doctor)) =>
        /\ sagaPc \in {"start", "done"}
        /\ ~result.success
        /\ CallsOf(run, "create_appointment") = {}
        /\ CallsOf(run, "save_appointment") = {}
        /\ CallsOf(run, "cancel_appointment") = {}

\* the first run has booked; the second run found a doctor whose document
\* has a token but no refresh_token and has returned
C36_Witness ==
    /\ run = 2
    /\ sagaPc = "done"
    /\ doctor.exists
    /\ Truthy(doctor.token)
    /\ Falsy(doctor.refresh_token)
    /\ result.error = "Doctor calendar not connected"
    /\ CallsOf(1, "save_appointment") # {}
    /\ CallsOf(2, "create_appointment") = {}

\* date d of the generated appointment is not before (month, day) n of the
\* current year; year is the number of years added to the current one
NotEarlier(d, n) ==
    \/ d.year > 0
    \/ d.month > n.month
    \/ d.month = n.month /\ d.day >= n.day

\* C37: date generation.  For every current date with month 1..12 and day
\* 1..31, book_appointment_algo returns the status True and a date with
\* month in 1..12 and day in 1..28 that is not earlier than the current
\* date; it never returns a failure status or no date.
C37_DateGeneration ==
    booking # NoBooking =>
        /\ booking.status = "True"
        /\ booking.date # NoDate
        /\ booking.date.month \in 1..12
        /\ booking.date.day \in 1..28
        /\ NotEarlier(booking.date, date)

\* the same for the current dates other than December 28 to 31
C37_OutsideLateDecember ==
    (booking # NoBooking /\ ~(date.month = 12 /\ date.day >= 28)) =>
        /\ booking.status = "True"
        /\ booking.date.month \in 1..12
        /\ booking.date.day \in 1..28
        /\ NotEarlier(booking.date, date)

\* C38: appointment ownership.  The status update changes the status of an
\* appointment only when the appointment exists and its doctor_id is the id
\* of the authenticated doctor, and then changes nothing but that status;
\* a request answered 404 or 403 leaves the stored appointments unchanged.
C38_AppointmentOwnership ==
    [][/\ appointmentDocs' # appointmentDocs =>
             /\ http'.op = "update_appointment_status"
             /\ http'.code = 200
             /\ appointmentDocs[http'.appointment_id].exists
             /\ appointmentDocs[http'.appointment_id].doctor_id = http'.cookie
             /\ appointmentDocs' =
                   [appointmentDocs EXCEPT ![http'.appointment_id].status = http'.status]
       /\ (http'.op = "update_appointment_status" /\ http'.code \in {403, 404}) =>
             appointmentDocs' = appointmentDocs]_vars

\* doctor_1 has confirmed the own appointment a1; doctor_2 has then asked
\* to cancel it and got 403, and a1 is still confirmed
C38_Witness ==
    /\ http.op = "update_appointment_status"
    /\ http.code = 403
    /\ http.cookie = "doctor_2"
    /\ http.appointment_id = "a1"
    /\ http.status = "cancelled"
    /\ appointmentDocs["a1"] = [exists |-> TRUE, doctor_id |-> "doctor_1", status |-> "confirmed"]

\* the keys under which the OAuth callback stores the credentials
CredentialFields == {"token", "refresh_token", "token_uri", "client_id", "client_secret"}

\* C39: no credential exposure in the hospital views.  The doctor entries
\* that the hospital dashboard and the hospital doctor list return contain
\* none of the stored credential fields token, refresh_token, token_uri,
\* client_id and client_secret.
C39_NoCredentialExposure ==
    http.op \in {"get_hospital_dashboard", "get_hospital_doctors"} =>
        \A entry \in http.doctors : \A k \in CredentialFields : entry[k] = Absent

\* the same for the hospital doctor list alone
C39_DoctorListOnly ==
    http.op = "get_hospital_doctors" =>
        \A entry \in http.doctors : \A k \in CredentialFields : entry[k] = Absent

====
